---- MODULE Spec2Model ----
(***************************************************************************)
(* Model of the Tchat server (src/src/server.rs): the listener, one Reader *)
(* thread per connection (fn client), the mpsc channel, and the            *)
(* Coordinator thread (fn server) that owns the session table `clients`    *)
(* and the ban table `banned_mfs`.                                         *)
(*                                                                         *)
(* Time is counted in whole seconds.  Bytes are integers 0..255; the byte  *)
(* alphabet used by the peers is ASCII plus 0xFF.                          *)
(***************************************************************************)
EXTENDS Integers, Sequences, FiniteSets, TLC

(* ------------------------------------------------------------------ *)
(* Program constants                                                   *)
(* ------------------------------------------------------------------ *)
BAN_LIMIT == 600
MESSAGE_RATE == 1
STRIKE_LIMIT == 10
TEMP_BUFFER_LEN == 512

(* ------------------------------------------------------------------ *)
(* Bounds of the model                                                 *)
(* ------------------------------------------------------------------ *)
\* number of connections the listener accepts in one behaviour
MaxConns == 3
\* events waiting in the channel
MaxQueue == 2
\* bytes in a Reader's accumulation buffer
MaxBuffer == 3
\* strikes past STRIKE_LIMIT a session may collect while it stays in the table
StrikeSlack == 1

MaxStrikes == STRIKE_LIMIT + StrikeSlack
\* lines sent per connection in Spec
MaxReads == 3
\* lines sent by the later connections of SpecBan
MaxBanReads == 1

ConnIds == 1..MaxConns
IPs == {1, 2}
Ports == 1..MaxConns
Addrs == IPs \X Ports
NoAddr == <<0, 0>>

Ip(a) == a[1]

\* the readings SystemTime::now() returns: around a message (0, MESSAGE_RATE)
\* and at the end of the ban window of a ban set at 0.  The wall clock may be
\* set back, so a reading may be earlier than the one before.
Instants == {0, MESSAGE_RATE, BAN_LIMIT}

(* ------------------------------------------------------------------ *)
(* Bytes and text                                                      *)
(* ------------------------------------------------------------------ *)
NL == 10

\* char::is_whitespace restricted to one byte code points
IsWhitespace(b) == b \in {9, 10, 11, 12, 13, 32}

\* str::from_utf8(&bytes).is_ok() on the alphabet ASCII + 0xFF: ASCII bytes
\* are one byte code points, 0xFF never occurs in well formed UTF-8
FromUtf8Ok(bytes) == \A i \in 1..Len(bytes) : bytes[i] < 128

RECURSIVE TrimStart(_)
TrimStart(s) ==
    IF s # <<>> /\ IsWhitespace(Head(s)) THEN TrimStart(Tail(s)) ELSE s

RECURSIVE TrimEnd(_)
TrimEnd(s) ==
    IF s # <<>> /\ IsWhitespace(s[Len(s)])
    THEN TrimEnd(SubSeq(s, 1, Len(s) - 1))
    ELSE s

\* str::trim
Trim(s) == TrimEnd(TrimStart(s))

\* one hexadecimal digit of "{x:02X}"
HexDigit(n) == IF n < 10 THEN 48 + n ELSE 55 + n

RECURSIVE HexEncode(_)
\* main: for x in buffer.iter() { write!(&mut token, "{x:02X}") }
HexEncode(buf) ==
    IF buf = <<>> THEN <<>>
    ELSE <<HexDigit(Head(buf) \div 16), HexDigit(Head(buf) % 16)>> \o HexEncode(Tail(buf))

\* the buffers getrandom may leave in main (shortened to one byte)
RandomBuffers == {<<171>>}

\* let mut buffer: [u8; 16] = [0; 16], as long as the buffers of RandomBuffers
ZeroBuffer == <<0>>

VARIABLES
    now,         \* the last reading of SystemTime::now() taken by the Coordinator
    token,       \* the token handed to server()
    getrandom_ok, \* getrandom(&mut buffer) returned Ok
    nextConn,    \* number of connections accepted so far, plus one
    connAddr,    \* peer address of each accepted connection
    sock,        \* peer side of each socket: "none", "open", "fin", "rst"
    shut,        \* the Coordinator has called shutdown(Both) on the socket
    rpc,         \* position of each Reader thread: "idle", "start", "read", "done"
    rbuf,        \* the Reader's accumulation buffer
    reads,       \* number of read() calls of each Reader that returned bytes
    queue,       \* the mpsc channel
    clients,     \* HashMap<SocketAddr, Client>
    banned_mfs,  \* HashMap<IpAddr, SystemTime>
    panicked,    \* the Coordinator thread has panicked
    reported,    \* per host, the last "banned for {secs} secs" notice and its clock reading
    seen,        \* per connection, how far the Coordinator has handled its events:
                 \* "none", "live" (ClientConnected handled), "gone" (ClientDisconnected)
    writes       \* what the Coordinator wrote to sockets while handling the last event

vars == <<now, token, getrandom_ok, nextConn, connAddr, sock, shut, rpc, rbuf, reads, queue,
          clients, banned_mfs, panicked, reported, seen, writes>>

coordVars == <<now, clients, banned_mfs, panicked, reported, seen, writes>>

(* ------------------------------------------------------------------ *)
(* Helpers on maps                                                     *)
(* ------------------------------------------------------------------ *)
MapRemove(m, k) == [x \in DOMAIN m \ {k} |-> m[x]]
MapInsert(m, k, v) == [x \in DOMAIN m \cup {k} |-> IF x = k THEN v ELSE m[x]]
EmptyMap == [x \in {} |-> 0]

(* enum Message; conn of the last two is the connection of the sending Reader *)
ClientConnected(c) == [type |-> "ClientConnected", conn |-> c, addr |-> NoAddr, bytes |-> <<>>]
ClientDisconnected(c, a) == [type |-> "ClientDisconnected", conn |-> c, addr |-> a, bytes |-> <<>>]
NewMessage(c, a, b) == [type |-> "NewMessage", conn |-> c, addr |-> a, bytes |-> b]

(* struct Client *)
Client(c, lm, sc, au) == [conn |-> c, last_message |-> lm, strike_count |-> sc, authed |-> au]

\* one write (write!/writeln!) of the Coordinator to the socket of connection c,
\* made while handling an event of address `from`
Write(c, kind, from, text, secs) ==
    [to |-> c, kind |-> kind, from |-> from, text |-> text, secs |-> secs]

\* the state main is in when it has spawned the Coordinator, with ok the
\* outcome of getrandom, whose error main prints and drops
Started(ok) ==
    /\ now = 0
    /\ getrandom_ok = ok
    /\ token \in {HexEncode(b) : b \in IF ok THEN RandomBuffers ELSE {ZeroBuffer}}
    /\ nextConn = 1
    /\ connAddr = [c \in ConnIds |-> NoAddr]
    /\ sock = [c \in ConnIds |-> "none"]
    /\ shut = [c \in ConnIds |-> FALSE]
    /\ rpc = [c \in ConnIds |-> "idle"]
    /\ rbuf = [c \in ConnIds |-> <<>>]
    /\ reads = [c \in ConnIds |-> 0]
    /\ queue = <<>>
    /\ clients = EmptyMap
    /\ banned_mfs = EmptyMap
    /\ panicked = FALSE
    /\ reported = EmptyMap
    /\ seen = [c \in ConnIds |-> "none"]
    /\ writes = {}

\* a start at which getrandom succeeded
Init == Started(TRUE)

\* a start at which getrandom succeeded or failed
InitStart == \E ok \in BOOLEAN : Started(ok)

(* ------------------------------------------------------------------ *)
(* Listener and peers                                                  *)
(* ------------------------------------------------------------------ *)
\* main: listener.incoming() yields a stream from peer address a and a Reader
\* thread is spawned for it.  A peer address is in use by one open connection
\* at a time.
Accept(a) ==
    /\ nextConn <= MaxConns
    /\ \A c \in 1..(nextConn - 1) : connAddr[c] = a => sock[c] # "open"
    /\ connAddr' = [connAddr EXCEPT ![nextConn] = a]
    /\ sock' = [sock EXCEPT ![nextConn] = "open"]
    /\ rpc' = [rpc EXCEPT ![nextConn] = "start"]
    /\ nextConn' = nextConn + 1
    /\ UNCHANGED <<token, getrandom_ok, shut, rbuf, reads, queue, coordVars>>

\* the peer of an open connection resets it: from then on peer_addr() on the
\* stream fails, and read() returns an error once the bytes that arrived
\* before the reset are read
PeerReset(c) ==
    /\ sock[c] = "open"
    /\ sock' = [sock EXCEPT ![c] = "rst"]
    /\ UNCHANGED <<token, getrandom_ok, nextConn, connAddr, shut, rpc, rbuf, reads, queue,
                   coordVars>>

\* the lines a peer sends
TokenLine == Append(token, NL)
ChatLine == <<104, NL>>
BadLine == <<255, NL>>
Chunks == {TokenLine, ChatLine, BadLine}

(* ------------------------------------------------------------------ *)
(* Reader thread: fn client                                            *)
(* ------------------------------------------------------------------ *)
\* TcpStream::peer_addr succeeds unless the connection was reset
PeerAddrOk(c) == sock[c] # "rst"

\* messages.send(..) fails once the Receiver is gone
SendOk == ~panicked

\* buffer.iter().position(|&b| b == b'\n'), 1-based; 0 when there is none
Position(buffer) ==
    IF \E i \in 1..Len(buffer) : buffer[i] = NL
    THEN CHOOSE i \in 1..Len(buffer) :
            /\ buffer[i] = NL
            /\ \A j \in 1..(i - 1) : buffer[j] # NL
    ELSE 0

\* client(): peer_addr, then send ClientConnected
ReaderStart(c) ==
    /\ rpc[c] = "start"
    /\ IF PeerAddrOk(c) /\ SendOk
       THEN /\ Len(queue) < MaxQueue
            /\ queue' = Append(queue, ClientConnected(c))
            /\ rpc' = [rpc EXCEPT ![c] = "read"]
       ELSE /\ rpc' = [rpc EXCEPT ![c] = "done"]
            /\ UNCHANGED queue
    /\ UNCHANGED <<token, getrandom_ok, nextConn, connAddr, sock, shut, rbuf, reads, coordVars>>

\* one pass of the read loop in which read() returns the n > 0 bytes `data`.
\* Bytes that arrived before the peer closed or reset the connection, or
\* before the socket was shut down, are still returned by read(): the error
\* of a reset comes at the read() that finds nothing left.
ReaderRead(c, data) ==
    /\ rpc[c] = "read"
    /\ Len(data) >= 1 /\ Len(data) <= TEMP_BUFFER_LEN
    /\ Len(rbuf[c]) + Len(data) <= MaxBuffer
    /\ LET buffer == rbuf[c] \o data
           pos == Position(buffer)
       IN  IF pos = 0
           THEN /\ rbuf' = [rbuf EXCEPT ![c] = buffer]
                /\ UNCHANGED <<queue, rpc>>
           ELSE /\ rbuf' = [rbuf EXCEPT ![c] = SubSeq(buffer, pos + 1, Len(buffer))]
                /\ IF SendOk
                   THEN /\ Len(queue) < MaxQueue
                        /\ queue' = Append(queue,
                                NewMessage(c, connAddr[c], SubSeq(buffer, 1, pos)))
                        /\ UNCHANGED rpc
                   ELSE /\ rpc' = [rpc EXCEPT ![c] = "done"]
                        /\ UNCHANGED queue
    /\ UNCHANGED <<token, getrandom_ok, nextConn, connAddr, sock, shut, coordVars>>

\* the Reader of c has read fewer than n times: counts the read it allows
WithinBudget(c, n) ==
    /\ reads[c] < n
    /\ reads' = [reads EXCEPT ![c] = @ + 1]

\* the Reader that reports the end of the stream and reads on
ReaderEof_ReadsOn(c) ==
    /\ rpc[c] = "read"
    /\ IF SendOk
       THEN /\ Len(queue) < MaxQueue
            /\ queue' = Append(queue, ClientDisconnected(c, connAddr[c]))
       ELSE UNCHANGED queue
    /\ sock' = [sock EXCEPT ![c] = IF @ = "open" THEN "fin" ELSE @]
    /\ UNCHANGED <<token, getrandom_ok, nextConn, connAddr, shut, rpc, rbuf, reads, coordVars>>

\* read() returns 0 or an error (the peer has closed or closes now, or the
\* socket was shut down): send ClientDisconnected and leave
ReaderEof(c) ==
    /\ rpc[c] = "read"
    /\ IF SendOk
       THEN /\ Len(queue) < MaxQueue
            /\ queue' = Append(queue, ClientDisconnected(c, connAddr[c]))
       ELSE UNCHANGED queue
    /\ rpc' = [rpc EXCEPT ![c] = "done"]
    /\ sock' = [sock EXCEPT ![c] = IF @ = "open" THEN "fin" ELSE @]
    /\ UNCHANGED <<token, getrandom_ok, nextConn, connAddr, shut, rbuf, reads, coordVars>>

(* ------------------------------------------------------------------ *)
(* Coordinator thread: fn server                                       *)
(* ------------------------------------------------------------------ *)
\* SystemTime::duration_since(earlier) is Ok iff earlier is not later than self
DurationOk(later, earlier) == later >= earlier

\* the failed duration_since replaced by a full MESSAGE_RATE
Elapsed_FailOpen(later, earlier) ==
    IF DurationOk(later, earlier) THEN later - earlier ELSE MESSAGE_RATE

\* now.duration_since(last_message).unwrap_or_else(|_| Duration::from_secs(0))
Elapsed(later, earlier) == IF DurationOk(later, earlier) THEN later - earlier ELSE 0

\* the ban that lasts through the instant BAN_LIMIT after it began
BanExpired_Strict(diff) == diff > BAN_LIMIT

\* if diff >= BAN_LIMIT { None } else { Some(banned_at) }
BanExpired(diff) == diff >= BAN_LIMIT

\* let secs = (BAN_LIMIT - diff).as_secs_f32()
RemainingSecs(diff) == BAN_LIMIT - diff

\* the rate check that passes two messages at one clock reading
OnTime_SameInstant(diff) == diff >= 0

\* if diff >= MESSAGE_RATE
OnTime(diff) == diff >= MESSAGE_RATE

\* the text compared with the token as it came
TokenMatches_Untrimmed(text) == text = token

\* if trimmed_text == token
TokenMatches(text) == Trim(text) = token

\* the ban that needs one strike more
StrikeLimitReached_Late(count) == count > STRIKE_LIMIT

\* author.strike_count >= STRIKE_LIMIT
StrikeLimitReached(count) == count >= STRIKE_LIMIT

\* Recipients without the test of client.authed
Recipients_Unauthed(author_addr) ==
    {a \in DOMAIN clients : a # author_addr}

\* Recipients without the test of *addr != author_addr
Recipients_WithAuthor(author_addr) ==
    {a \in DOMAIN clients : clients[a].authed}

\* Recipients that compares the hosts instead of the socket addresses
Recipients_OtherHosts(author_addr) ==
    {a \in DOMAIN clients : Ip(a) # Ip(author_addr) /\ clients[a].authed}

\* for (addr, client) in clients.iter() { if *addr != author_addr && client.authed
Recipients(author_addr) ==
    {a \in DOMAIN clients : a # author_addr /\ clients[a].authed}

\* the Client inserted with the reading of the clock as its last_message
NewClient_NoCredit(author, t) == Client(author, t, 0, FALSE)

\* the Client inserted for an admitted connection
NewClient(author, t) == Client(author, t - 2 * MESSAGE_RATE, 0, FALSE)

\* author.last_message = now; author.strike_count = 0;
Accepted(author, t) == [author EXCEPT !.last_message = t, !.strike_count = 0]

\* author.strike_count += 1;
Struck(author) == [author EXCEPT !.strike_count = @ + 1]

\* the connection of a banned host: notice with the seconds left, shutdown
RejectBanned(author, author_addr, banned_at, t) ==
    LET secs == RemainingSecs(t - banned_at)
    IN  /\ banned_mfs' = MapInsert(MapRemove(banned_mfs, Ip(author_addr)),
                                   Ip(author_addr), banned_at)
        /\ writes' = {Write(author, "banned_secs", author_addr, <<>>, secs)}
        /\ reported' = MapInsert(reported, Ip(author_addr), [secs |-> secs, at |-> t])
        /\ shut' = [shut EXCEPT ![author] = TRUE]
        /\ UNCHANGED <<clients, panicked>>

\* the admission that leaves the expired ban record in the table
Admit_KeepBan(author, author_addr, t) ==
    /\ banned_mfs' = banned_mfs
    /\ clients' = MapInsert(clients, author_addr, NewClient(author, t))
    /\ writes' = {Write(author, "prompt", author_addr, <<>>, 0)}
    /\ reported' = MapRemove(reported, Ip(author_addr))
    /\ UNCHANGED <<shut, panicked>>

\* the connection of a host that is not banned: new Client, token prompt
Admit(author, author_addr, t) ==
    /\ banned_mfs' = MapRemove(banned_mfs, Ip(author_addr))
    /\ clients' = MapInsert(clients, author_addr, NewClient(author, t))
    /\ writes' = {Write(author, "prompt", author_addr, <<>>, 0)}
    /\ reported' = MapRemove(reported, Ip(author_addr))
    /\ UNCHANGED <<shut, panicked>>

\* Message::ClientConnected { author }, with t the reading of SystemTime::now()
HandleConnected(t) ==
    /\ ~panicked
    /\ queue # <<>>
    /\ Head(queue).type = "ClientConnected"
    /\ queue' = Tail(queue)
    /\ LET author == Head(queue).conn
           author_addr == connAddr[author]
           ip == Ip(author_addr)
           wasBanned == ip \in DOMAIN banned_mfs
       IN  IF ~PeerAddrOk(author)
           THEN \* .expect("TODO: cache the peer addrs of the connection")
                /\ panicked' = TRUE
                /\ writes' = {}
                /\ UNCHANGED <<now, clients, banned_mfs, shut, reported>>
           ELSE /\ now' = t
                /\ IF wasBanned /\ ~DurationOk(t, banned_mfs[ip])
                   THEN \* .expect("TODO: don't crash if the clock went backwards")
                        /\ panicked' = TRUE
                        /\ banned_mfs' = MapRemove(banned_mfs, ip)
                        /\ writes' = {}
                        /\ UNCHANGED <<clients, shut, reported>>
                   ELSE IF wasBanned /\ ~BanExpired(t - banned_mfs[ip])
                   THEN RejectBanned(author, author_addr, banned_mfs[ip], t)
                   ELSE Admit(author, author_addr, t)
    /\ seen' = [seen EXCEPT ![Head(queue).conn] = "live"]
    /\ UNCHANGED <<token, getrandom_ok, nextConn, connAddr, sock, rpc, rbuf, reads>>

\* the disconnection that drops every session of the host
HandleDisconnected_DropsHost ==
    /\ ~panicked
    /\ queue # <<>>
    /\ Head(queue).type = "ClientDisconnected"
    /\ queue' = Tail(queue)
    /\ clients' = [a \in {b \in DOMAIN clients : Ip(b) # Ip(Head(queue).addr)} |-> clients[a]]
    /\ writes' = {}
    /\ seen' = [seen EXCEPT ![Head(queue).conn] = "gone"]
    /\ UNCHANGED <<now, token, getrandom_ok, nextConn, connAddr, sock, shut, rpc, rbuf, reads,
                   banned_mfs, panicked, reported>>

\* Message::ClientDisconnected { author_addr }
HandleDisconnected ==
    /\ ~panicked
    /\ queue # <<>>
    /\ Head(queue).type = "ClientDisconnected"
    /\ queue' = Tail(queue)
    /\ clients' = MapRemove(clients, Head(queue).addr)
    /\ writes' = {}
    /\ seen' = [seen EXCEPT ![Head(queue).conn] = "gone"]
    /\ UNCHANGED <<now, token, getrandom_ok, nextConn, connAddr, sock, shut, rpc, rbuf, reads,
                   banned_mfs, panicked, reported>>

\* the two identical blocks that count a strike and ban at STRIKE_LIMIT
StrikeAndBan(author_addr, t) ==
    LET author == clients[author_addr]
        struck == Struck(author)
    IN  /\ author.strike_count < MaxStrikes
        /\ clients' = [clients EXCEPT ![author_addr] = struck]
        /\ IF StrikeLimitReached(struck.strike_count)
           THEN /\ banned_mfs' = MapInsert(banned_mfs, Ip(author_addr), t)
                /\ writes' = {Write(author.conn, "banned", author_addr, <<>>, 0)}
                /\ shut' = [shut EXCEPT ![author.conn] = TRUE]
           ELSE /\ writes' = {}
                /\ UNCHANGED <<banned_mfs, shut>>

\* if author.authed
Authed(author) == author.authed

\* the message of an authenticated author goes to the other authenticated clients
Broadcast(author_addr, bytes, t) ==
    /\ clients' = [clients EXCEPT ![author_addr] = Accepted(@, t)]
    /\ writes' = {Write(clients[a].conn, "broadcast", author_addr, bytes, 0) :
                      a \in Recipients(author_addr)}
    /\ UNCHANGED <<banned_mfs, shut>>

\* the token is right: authed = true, welcome message
Authenticate(author_addr, t) ==
    /\ clients' = [clients EXCEPT ![author_addr] = [Accepted(@, t) EXCEPT !.authed = TRUE]]
    /\ writes' = {Write(clients[author_addr].conn, "welcome", author_addr, <<>>, 0)}
    /\ UNCHANGED <<banned_mfs, shut>>

\* the rejected session left in the table, as the accepted text left it
RejectToken_KeepSession(author_addr) ==
    /\ clients' = [clients EXCEPT ![author_addr] = Accepted(@, now')]
    /\ writes' = {Write(clients[author_addr].conn, "invalid_token", author_addr, <<>>, 0)}
    /\ shut' = [shut EXCEPT ![clients[author_addr].conn] = TRUE]
    /\ UNCHANGED banned_mfs

\* the rejection that also bans the host
RejectToken_Banning(author_addr) ==
    /\ clients' = MapRemove(clients, author_addr)
    /\ writes' = {Write(clients[author_addr].conn, "invalid_token", author_addr, <<>>, 0)}
    /\ shut' = [shut EXCEPT ![clients[author_addr].conn] = TRUE]
    /\ banned_mfs' = MapInsert(MapRemove(banned_mfs, Ip(author_addr)), Ip(author_addr), now')

\* the token is wrong: notice, shutdown, clients.remove(&author_addr)
RejectToken(author_addr) ==
    /\ clients' = MapRemove(clients, author_addr)
    /\ writes' = {Write(clients[author_addr].conn, "invalid_token", author_addr, <<>>, 0)}
    /\ shut' = [shut EXCEPT ![clients[author_addr].conn] = TRUE]
    /\ UNCHANGED banned_mfs

\* a text that is not the token is relayed whoever sent it
AcceptText_RelayUnauthed(author_addr, bytes, t) ==
    IF ~Authed(clients[author_addr]) /\ TokenMatches(bytes)
    THEN Authenticate(author_addr, t)
    ELSE Broadcast(author_addr, bytes, t)

\* an on-time message that is valid UTF-8
AcceptText(author_addr, bytes, t) ==
    IF Authed(clients[author_addr])
    THEN Broadcast(author_addr, bytes, t)
    ELSE IF TokenMatches(bytes)
    THEN Authenticate(author_addr, t)
    ELSE RejectToken(author_addr)

\* Message::NewMessage { author_addr, bytes }, with t the reading of SystemTime::now()
HandleNewMessage(t) ==
    /\ ~panicked
    /\ queue # <<>>
    /\ Head(queue).type = "NewMessage"
    /\ queue' = Tail(queue)
    /\ LET author_addr == Head(queue).addr
           bytes == Head(queue).bytes
       IN  IF author_addr \notin DOMAIN clients
           THEN /\ writes' = {}
                /\ UNCHANGED <<now, clients, banned_mfs, shut>>
           ELSE /\ now' = t
                /\ IF OnTime(Elapsed(t, clients[author_addr].last_message))
                      /\ FromUtf8Ok(bytes)
                   THEN AcceptText(author_addr, bytes, t)
                   ELSE StrikeAndBan(author_addr, t)
    /\ UNCHANGED <<token, getrandom_ok, nextConn, connAddr, sock, rpc, rbuf, reads, panicked, reported, seen>>

(* ------------------------------------------------------------------ *)
(* Specifications                                                      *)
(* ------------------------------------------------------------------ *)
\* Spec: three peers at three addresses (two of them on one host) that
\* authenticate and chat; the first sends at most MaxReads lines, the others one
\* line fewer, so no session reaches STRIKE_LIMIT.
ChatBudget(c) == IF c = 1 THEN MaxReads ELSE MaxReads - 1
ChatAddr(c) == IF c = 1 THEN <<1, 1>> ELSE IF c = 2 THEN <<1, 2>> ELSE <<2, 1>>
ChatInstants == {0, MESSAGE_RATE}

Next ==
    \/ \E a \in {ChatAddr(nextConn)} : Accept(a)
    \/ \E c \in ConnIds : ReaderStart(c)
    \/ \E c \in ConnIds, data \in Chunks : WithinBudget(c, ChatBudget(c)) /\ ReaderRead(c, data)
    \/ \E c \in ConnIds : ReaderEof(c)
    \/ \E t \in ChatInstants : HandleConnected(t)
    \/ HandleDisconnected
    \/ \E t \in ChatInstants : HandleNewMessage(t)

Spec == Init /\ [][Next]_vars

\* SpecBan: all peers on host 1.  The first connection sends any number of
\* undecodable lines, the later ones at most MaxBanReads lines of text.
BanAddr(c) == <<1, c>>
BanChunks(c) == IF c = 1 THEN {BadLine} ELSE {TokenLine, ChatLine}

NextBan ==
    \/ \E a \in {BanAddr(nextConn)} : Accept(a)
    \/ \E c \in ConnIds : ReaderStart(c)
    \/ \E data \in BanChunks(1) : ReaderRead(1, data) /\ UNCHANGED reads
    \/ \E c \in ConnIds \ {1} : \E data \in BanChunks(c) :
          WithinBudget(c, MaxBanReads) /\ ReaderRead(c, data)
    \/ \E c \in ConnIds : ReaderEof(c)
    \/ \E t \in Instants : HandleConnected(t)
    \/ HandleDisconnected
    \/ \E t \in Instants : HandleNewMessage(t)

SpecBan == Init /\ [][NextBan]_vars

\* SpecExpiry: all peers on host 1; only the first connection sends lines, all
\* of them undecodable, and the clock is read at the start, at BAN_LIMIT and
\* one MESSAGE_RATE later.
ExpiryInstants == {0, BAN_LIMIT, BAN_LIMIT + MESSAGE_RATE}

NextExpiry ==
    \/ \E a \in {BanAddr(nextConn)} : Accept(a)
    \/ \E c \in ConnIds : ReaderStart(c)
    \/ \E data \in BanChunks(1) : ReaderRead(1, data) /\ UNCHANGED reads
    \/ \E c \in ConnIds : ReaderEof(c)
    \/ \E t \in ExpiryInstants : HandleConnected(t)
    \/ HandleDisconnected
    \/ \E t \in ExpiryInstants : HandleNewMessage(t)

SpecExpiry == Init /\ [][NextExpiry]_vars

\* SpecStart: the peers of Spec, each sending one line at most, after a start
\* at which getrandom succeeded or failed.
NextStart ==
    \/ \E a \in {ChatAddr(nextConn)} : Accept(a)
    \/ \E c \in ConnIds : ReaderStart(c)
    \/ \E c \in ConnIds, data \in Chunks : WithinBudget(c, MaxBanReads) /\ ReaderRead(c, data)
    \/ \E c \in ConnIds : ReaderEof(c)
    \/ \E t \in ChatInstants : HandleConnected(t)
    \/ HandleDisconnected
    \/ \E t \in ChatInstants : HandleNewMessage(t)

SpecStart == InitStart /\ [][NextStart]_vars

\* SpecAuth: the peers of Spec under a clock that is read at the start and
\* three MESSAGE_RATE later, so that it can be set back by more than the two
\* MESSAGE_RATE a new session is given.
AuthInstants == {0, 3 * MESSAGE_RATE}

NextAuth ==
    \/ \E a \in {ChatAddr(nextConn)} : Accept(a)
    \/ \E c \in ConnIds : ReaderStart(c)
    \/ \E c \in ConnIds, data \in Chunks : WithinBudget(c, ChatBudget(c)) /\ ReaderRead(c, data)
    \/ \E c \in ConnIds : ReaderEof(c)
    \/ \E t \in AuthInstants : HandleConnected(t)
    \/ HandleDisconnected
    \/ \E t \in AuthInstants : HandleNewMessage(t)

SpecAuth == Init /\ [][NextAuth]_vars

\* SpecFrame: the peers of Spec sending text that read() returns in pieces:
\* a byte without delimiter, a delimiter alone, a whole line, two delimiters.
FrameChunks == {<<104>>, <<NL>>, ChatLine, <<NL, NL>>}

NextFrame ==
    \/ \E a \in {ChatAddr(nextConn)} : Accept(a)
    \/ \E c \in ConnIds : ReaderStart(c)
    \/ \E c \in ConnIds, data \in FrameChunks :
          WithinBudget(c, ChatBudget(c)) /\ ReaderRead(c, data)
    \/ \E c \in ConnIds : ReaderEof(c)
    \/ \E t \in ChatInstants : HandleConnected(t)
    \/ HandleDisconnected
    \/ \E t \in ChatInstants : HandleNewMessage(t)

SpecFrame == Init /\ [][NextFrame]_vars

\* SpecReset: the peers of Spec, each sending one line at most, any of which
\* may reset its connection at any moment.
NextReset ==
    \/ \E a \in {ChatAddr(nextConn)} : Accept(a)
    \/ \E c \in ConnIds : PeerReset(c)
    \/ \E c \in ConnIds : ReaderStart(c)
    \/ \E c \in ConnIds, data \in Chunks : WithinBudget(c, MaxBanReads) /\ ReaderRead(c, data)
    \/ \E c \in ConnIds : ReaderEof(c)
    \/ \E t \in ChatInstants : HandleConnected(t)
    \/ HandleDisconnected
    \/ \E t \in ChatInstants : HandleNewMessage(t)

SpecReset == Init /\ [][NextReset]_vars

\* SpecReuse: one peer that connects from one address again and again, after
\* resetting its earlier connection, and sends one line at most on each.
ReuseAddr == <<1, 1>>

NextReuse ==
    \/ \E a \in {ReuseAddr} : Accept(a)
    \/ \E c \in ConnIds : PeerReset(c)
    \/ \E c \in ConnIds : ReaderStart(c)
    \/ \E c \in ConnIds, data \in Chunks : WithinBudget(c, MaxBanReads) /\ ReaderRead(c, data)
    \/ \E c \in ConnIds : ReaderEof(c)
    \/ \E t \in ChatInstants : HandleConnected(t)
    \/ HandleDisconnected
    \/ \E t \in ChatInstants : HandleNewMessage(t)

SpecReuse == Init /\ [][NextReuse]_vars

\* SpecMono: the peers of Spec under a clock that never goes back: each
\* reading is the last one or a later one.
MonoInstants == {0, MESSAGE_RATE, 2 * MESSAGE_RATE}

NextMono ==
    \/ \E a \in {ChatAddr(nextConn)} : Accept(a)
    \/ \E c \in ConnIds : ReaderStart(c)
    \/ \E c \in ConnIds, data \in Chunks : WithinBudget(c, ChatBudget(c)) /\ ReaderRead(c, data)
    \/ \E c \in ConnIds : ReaderEof(c)
    \/ \E t \in MonoInstants : t >= now /\ HandleConnected(t)
    \/ HandleDisconnected
    \/ \E t \in MonoInstants : t >= now /\ HandleNewMessage(t)

SpecMono == Init /\ [][NextMono]_vars

(* ------------------------------------------------------------------ *)
(* Properties                                                          *)
(* ------------------------------------------------------------------ *)
\* the step takes the first event off the channel: a step of the Coordinator
CoordStep == ~panicked /\ queue # <<>> /\ queue' = Tail(queue)

\* the Coordinator handles a NewMessage of a session that is in the table
MessageStep ==
    /\ CoordStep
    /\ Head(queue).type = "NewMessage"
    /\ Head(queue).addr \in DOMAIN clients

\* ... that is valid UTF-8 and passes the rate check at the new clock reading
AcceptedStep ==
    /\ MessageStep
    /\ FromUtf8Ok(Head(queue).bytes)
    /\ OnTime(Elapsed(now', clients[Head(queue).addr].last_message))

BroadcastWrites == {w \in writes : w.kind = "broadcast"}

\* C1: every broadcast written while handling an event went to the socket of a
\* session that is in the table and authenticated.
C1_BroadcastOnlyToAuthed ==
    \A w \in BroadcastWrites :
        \E a \in DOMAIN clients : clients[a].conn = w.to /\ clients[a].authed

\* a broadcast was written while an unauthenticated session was in the table
C1_Witness ==
    /\ BroadcastWrites # {}
    /\ \E a \in DOMAIN clients : ~clients[a].authed

\* C2: no broadcast written while handling a NewMessage goes to the socket of
\* the session stored under the author's address.
C2_NeverToAuthor ==
    [][MessageStep =>
          \A w \in writes' : w.kind = "broadcast" =>
              w.to # clients[Head(queue).addr].conn]_vars

\* a broadcast was written and its author is in the table, authenticated
C2_Witness ==
    \E w \in BroadcastWrites :
        /\ w.from \in DOMAIN clients
        /\ clients[w.from].authed
        /\ w.to # clients[w.from].conn

\* C3: while handling a NewMessage of an unauthenticated author the Coordinator
\* writes to no socket but the author's and relays nothing; a step that relays
\* handles the message of an author that was authenticated before it.
C3_UnauthedNeverRelayed ==
    [][/\ (MessageStep /\ ~clients[Head(queue).addr].authed) =>
             \A w \in writes' :
                 w.to = clients[Head(queue).addr].conn /\ w.kind # "broadcast"
       /\ (CoordStep /\ \E w \in writes' : w.kind = "broadcast") =>
             (MessageStep /\ clients[Head(queue).addr].authed)]_vars

\* a token submission (right or wrong) was answered while another session was
\* authenticated
C3_Witness ==
    \E w \in writes :
        /\ w.kind \in {"welcome", "invalid_token"}
        /\ \E a \in DOMAIN clients : a # w.from /\ clients[a].authed

\* C10: handling an on-time, decodable NewMessage of an authenticated author
\* writes the message to the socket of every other authenticated session of
\* the table, in that same step.
C10_BroadcastReachesAll ==
    [][(AcceptedStep /\ clients[Head(queue).addr].authed) =>
          \A a \in DOMAIN clients \ {Head(queue).addr} :
              clients[a].authed =>
                  \E w \in writes' :
                      /\ w.to = clients[a].conn
                      /\ w.kind = "broadcast"
                      /\ w.text = Head(queue).bytes]_vars

\* one message was relayed to two sessions, one of them on the author's host
C10_Witness ==
    \E w1, w2 \in BroadcastWrites :
        /\ w1.to # w2.to
        /\ Ip(connAddr[w1.to]) = Ip(w1.from)

\* the sessions whose strike count the step lowers
StrikeLowered ==
    {a \in DOMAIN clients \cap DOMAIN clients' :
        /\ clients'[a].conn = clients[a].conn
        /\ clients'[a].strike_count < clients[a].strike_count}

\* C7 as stated: a step lowers a session's strike count only to zero, and only
\* when it handles an on-time, decodable message of that session and the
\* session was already authenticated.
C7_ResetOnlyWhenAuthed ==
    [][\A a \in StrikeLowered :
          /\ AcceptedStep
          /\ Head(queue).addr = a
          /\ clients'[a].strike_count = 0
          /\ clients[a].authed]_vars

\* C7: a step lowers a session's strike count only to zero, and only when it
\* handles an on-time, decodable message of that session; the session is then
\* either authenticated already (a chat message) or it is not and the
\* message is the token (its accepted submission).
C7_ResetOnlyOnAccepted ==
    [][\A a \in StrikeLowered :
          /\ AcceptedStep
          /\ Head(queue).addr = a
          /\ clients'[a].strike_count = 0
          /\ clients[a].authed \/ TokenMatches(Head(queue).bytes)]_vars

\* a connection sent two messages, both handled, and the second was its
\* accepted token: the first was undecodable and charged a strike, which the
\* accepted token cleared
C7_Witness ==
    \E c \in ConnIds :
        /\ reads[c] = 2
        /\ rbuf[c] = <<>>
        /\ \A i \in 1..Len(queue) : queue[i].conn # c
        /\ connAddr[c] \in DOMAIN clients
        /\ clients[connAddr[c]].conn = c
        /\ clients[connAddr[c]].strike_count = 0
        /\ \E w \in writes : w.kind = "welcome" /\ w.to = c

\* the Coordinator handles the ClientConnected of a connection whose peer
\* address it can read
ConnectedStep ==
    /\ CoordStep
    /\ Head(queue).type = "ClientConnected"
    /\ PeerAddrOk(Head(queue).conn)

\* after the step the table holds a session of the event's connection
SessionCreated ==
    \E a \in DOMAIN clients' : clients'[a].conn = Head(queue).conn

\* the unauthenticated author of the handled message sent text that is not
\* the token
WrongTokenStep ==
    /\ MessageStep
    /\ ~clients[Head(queue).addr].authed
    /\ FromUtf8Ok(Head(queue).bytes)
    /\ ~TokenMatches(Head(queue).bytes)

\* the step removes the author's session, shuts its socket, and changes
\* neither another session nor the ban table
RejectedClean ==
    /\ DOMAIN clients' = DOMAIN clients \ {Head(queue).addr}
    /\ \A b \in DOMAIN clients' : clients'[b] = clients[b]
    /\ shut'[clients[Head(queue).addr].conn]
    /\ banned_mfs' = banned_mfs

\* C4 as stated: every decodable text other than the token, sent by an
\* unauthenticated session, gets the session removed with no strike and no
\* change of the ban table.
C4_WrongTokenAlwaysRejected ==
    [][WrongTokenStep => RejectedClean]_vars

\* C4: decodable text other than the token, sent by an unauthenticated
\* session and passing the rate check, gets the session removed with no
\* strike and no change of the ban table; and a ClientConnected of a host with
\* no ban record is admitted with a fresh session.
C4_WrongTokenRejectedNoBan ==
    [][/\ (WrongTokenStep /\ AcceptedStep) => RejectedClean
       /\ (ConnectedStep /\ Ip(connAddr[Head(queue).conn]) \notin DOMAIN banned_mfs) =>
             /\ connAddr[Head(queue).conn] \in DOMAIN clients'
             /\ clients'[connAddr[Head(queue).conn]] =
                    Client(Head(queue).conn, now' - 2 * MESSAGE_RATE, 0, FALSE)
             /\ banned_mfs' = banned_mfs]_vars

\* a wrong token was just rejected: the notice is written, the socket is shut,
\* the session is gone and its host has no ban record
C4_Witness ==
    \E w \in writes :
        /\ w.kind = "invalid_token"
        /\ shut[w.to]
        /\ w.from \notin DOMAIN clients
        /\ Ip(w.from) \notin DOMAIN banned_mfs

\* C5 as stated: a ClientConnected of a banned host creates no session while
\* the time since the ban is at most BAN_LIMIT, equality included.
C5_BlockedThroughEquality ==
    [][(/\ ConnectedStep
        /\ Ip(connAddr[Head(queue).conn]) \in DOMAIN banned_mfs
        /\ now' - banned_mfs[Ip(connAddr[Head(queue).conn])] <= BAN_LIMIT)
       => ~SessionCreated]_vars

\* C5: a ClientConnected of a banned host creates no session while the time
\* since the ban is less than BAN_LIMIT (the socket is shut and the record
\* keeps its timestamp); from BAN_LIMIT on, equality included, the connection
\* is admitted and the record is discarded.
C5_BlockedBelowWindow ==
    [][(ConnectedStep /\ Ip(connAddr[Head(queue).conn]) \in DOMAIN banned_mfs) =>
          LET author == Head(queue).conn
              ip == Ip(connAddr[author])
          IN  IF now' - banned_mfs[ip] < BAN_LIMIT
              THEN /\ ~SessionCreated
                   /\ clients' = clients
                   /\ ~panicked' => (shut'[author] /\ banned_mfs' = banned_mfs)
              ELSE /\ SessionCreated
                   /\ ip \notin DOMAIN banned_mfs']_vars

\* a session that reached the strike limit is in the table, its host has no
\* ban record any more, and a session of the same host was admitted at the
\* reading BAN_LIMIT: the record was discarded at a ClientConnected handled
\* exactly BAN_LIMIT after the ban
C5_Witness ==
    /\ ~panicked
    /\ now = BAN_LIMIT
    /\ \E a, b \in DOMAIN clients :
          /\ StrikeLimitReached(clients[a].strike_count)
          /\ Ip(b) = Ip(a)
          /\ Ip(a) \notin DOMAIN banned_mfs
          /\ clients[b] = Client(clients[b].conn, BAN_LIMIT - 2 * MESSAGE_RATE, 0, FALSE)

\* C6 as stated: when a ClientConnected of a banned host is rejected at a
\* later reading than the previous rejected one of that host, with no
\* admission of the host between them, the seconds reported are fewer than
\* those reported before.
C6_RemainingDecreases ==
    [][\A ip \in DOMAIN reported \cap DOMAIN reported' :
          (ConnectedStep /\ reported'[ip].at > reported[ip].at) =>
              reported'[ip].secs < reported[ip].secs]_vars

\* the host has an unexpired ban record at the last clock reading
Banned(ip) ==
    ip \in DOMAIN banned_mfs /\ ~BanExpired(now - banned_mfs[ip])

\* C8 as stated, from the table to the connections: every entry of the
\* session table belongs to a connection whose socket the Coordinator has not
\* shut down and whose host is not banned.
C8_EntriesOpenNotBanned ==
    \A a \in DOMAIN clients :
        ~shut[clients[a].conn] /\ ~Banned(Ip(a))

\* C9 as stated: while a host has an unexpired ban record the session table
\* holds no session of that host, on any port.
C9_BannedHostHasNoSession ==
    \A ip \in IPs :
        Banned(ip) => \A a \in DOMAIN clients : Ip(a) # ip

\* the handled message is charged as the strike that brings its author to
\* STRIKE_LIMIT
LimitStep ==
    /\ MessageStep
    /\ Head(queue).addr \in DOMAIN clients'
    /\ clients[Head(queue).addr].strike_count = STRIKE_LIMIT - 1
    /\ clients'[Head(queue).addr].strike_count = STRIKE_LIMIT

\* C11: the step that charges a session its STRIKE_LIMIT-th strike in a row
\* records a ban of its host at the clock reading of the step, writes the ban
\* notice to its socket and shuts the socket down; and a ClientConnected of a
\* host, on any port, handled at an elapsed time of 0 or more and less than
\* BAN_LIMIT since the host's ban timestamp creates no session and is answered
\* with the ban notice and the shutdown of the socket.
C11_BanAtLimitThenBlocked ==
    [][/\ LimitStep =>
             LET a == Head(queue).addr
             IN  /\ Ip(a) \in DOMAIN banned_mfs'
                 /\ banned_mfs'[Ip(a)] = now'
                 /\ writes' = {Write(clients[a].conn, "banned", a, <<>>, 0)}
                 /\ shut'[clients[a].conn]
       /\ (/\ ConnectedStep
           /\ Ip(connAddr[Head(queue).conn]) \in DOMAIN banned_mfs
           /\ now' - banned_mfs[Ip(connAddr[Head(queue).conn])] \in 0..(BAN_LIMIT - 1)) =>
             LET author == Head(queue).conn
                 ip == Ip(connAddr[author])
             IN  /\ ~SessionCreated
                 /\ \E w \in writes' : w.to = author /\ w.kind = "banned_secs"
                 /\ shut'[author]
                 /\ ~panicked']_vars

\* a connection was just answered with the ban notice and shut down while a
\* session of the same host on another port holds STRIKE_LIMIT strikes
C11_Witness ==
    \E w \in writes :
        /\ w.kind = "banned_secs"
        /\ shut[w.to]
        /\ \E a \in DOMAIN clients :
              /\ a # w.from
              /\ Ip(a) = Ip(w.from)
              /\ clients[a].strike_count = STRIKE_LIMIT

\* C12: a ClientConnected of a host whose ban record is BAN_LIMIT old or older
\* removes the record and inserts a session of the connection that has no
\* strike and is not authenticated.
C12_ExpiredBanAdmitsFresh ==
    [][(/\ ConnectedStep
        /\ Ip(connAddr[Head(queue).conn]) \in DOMAIN banned_mfs
        /\ now' - banned_mfs[Ip(connAddr[Head(queue).conn])] >= BAN_LIMIT) =>
          LET author == Head(queue).conn
              author_addr == connAddr[author]
          IN  /\ Ip(author_addr) \notin DOMAIN banned_mfs'
              /\ author_addr \in DOMAIN clients'
              /\ clients'[author_addr].conn = author
              /\ clients'[author_addr].strike_count = 0
              /\ ~clients'[author_addr].authed
              /\ writes' = {Write(author, "prompt", author_addr, <<>>, 0)}
              /\ ~shut'[author]]_vars

\* two connections were accepted; the first holds STRIKE_LIMIT strikes or
\* more, its host has no ban record, and the second was admitted at the
\* reading BAN_LIMIT + MESSAGE_RATE: it is the second's ClientConnected that
\* removed the record, more than BAN_LIMIT after the ban
C12_Witness ==
    /\ ~panicked
    /\ nextConn = 3
    /\ BanAddr(1) \in DOMAIN clients
    /\ clients[BanAddr(1)].strike_count >= STRIKE_LIMIT
    /\ Ip(BanAddr(1)) \notin DOMAIN banned_mfs
    /\ BanAddr(2) \in DOMAIN clients
    /\ clients[BanAddr(2)] = Client(2, BAN_LIMIT - MESSAGE_RATE, 0, FALSE)

\* the clock reading at the handling of the message is earlier than the
\* author's last_message
BackwardStep ==
    /\ MessageStep
    /\ now' < clients[Head(queue).addr].last_message

\* C13 as stated: a message handled at a reading earlier than its author's
\* last_message adds no strike to the author and no ban record.
C13_BackwardNoStrike ==
    [][BackwardStep =>
          /\ Head(queue).addr \in DOMAIN clients' =>
                clients'[Head(queue).addr].strike_count =
                    clients[Head(queue).addr].strike_count
          /\ DOMAIN banned_mfs' \subseteq DOMAIN banned_mfs]_vars

\* C13: a message handled at a reading earlier than its author's last_message
\* is handled as one that came too early: the Coordinator does not panic, the
\* author stays in the table with one strike more and the same last_message
\* and authenticated flag, nothing is relayed, and the host is banned at that
\* reading exactly when the strike count has reached STRIKE_LIMIT.
C13_BackwardIsRateViolation ==
    [][BackwardStep =>
          LET a == Head(queue).addr
          IN  /\ ~panicked'
              /\ a \in DOMAIN clients'
              /\ clients'[a] =
                    [clients[a] EXCEPT !.strike_count = clients[a].strike_count + 1]
              /\ \A w \in writes' : w.kind = "banned" /\ w.to = clients[a].conn
              /\ IF clients[a].strike_count + 1 >= STRIKE_LIMIT
                 THEN /\ Ip(a) \in DOMAIN banned_mfs'
                      /\ banned_mfs'[Ip(a)] = now'
                      /\ shut'[clients[a].conn]
                 ELSE banned_mfs' = banned_mfs /\ shut' = shut]_vars

\* a session of a connection that sends one line of text and nothing else
\* holds a strike and a last_message later than the clock: the line was
\* handled after the clock had been set back
C13_Witness ==
    \E a \in DOMAIN clients :
        /\ clients[a].conn # 1
        /\ clients[a].strike_count = 1
        /\ now < clients[a].last_message
        /\ writes = {}

\* C14 as stated: whatever the clock reading, the Coordinator handles the
\* event it takes off the channel and does not panic (the ClientConnected of a
\* connection whose peer address cannot be read is left aside).
C14_NoPanicOnAnyReading ==
    [][(/\ CoordStep
        /\ Head(queue).type = "ClientConnected" => PeerAddrOk(Head(queue).conn))
       => ~panicked']_vars

\* C15: a message of an authenticated session that is relayed, or that moves
\* the session's last_message, is handled MESSAGE_RATE or more after the
\* last_message it found, and leaves last_message at the reading of its
\* handling, so two accepted messages are MESSAGE_RATE apart or more; and a
\* message of any session handled less than MESSAGE_RATE after last_message,
\* valid text or not, is relayed to nobody, leaves last_message alone and adds
\* one strike.
C15_AcceptedSpacedEarlyStruck ==
    [][MessageStep =>
          LET a == Head(queue).addr
              diff == now' - clients[a].last_message
          IN  /\ (/\ clients[a].authed
                  /\ \/ \E w \in writes' : w.kind = "broadcast"
                     \/ a \in DOMAIN clients' /\ clients'[a].last_message # clients[a].last_message)
                 => /\ diff >= MESSAGE_RATE
                    /\ clients'[a].last_message = now'
              /\ diff < MESSAGE_RATE =>
                    /\ \A w \in writes' : w.kind # "broadcast"
                    /\ a \in DOMAIN clients'
                    /\ clients'[a] =
                          [clients[a] EXCEPT !.strike_count = clients[a].strike_count + 1]]_vars

\* an authenticated session, with another one to relay to, holds a strike and
\* a last_message at the latest reading the clock of Spec takes: the strike
\* was charged after its last accepted message, for a message handled less
\* than MESSAGE_RATE after it
C15_Witness ==
    \E a \in DOMAIN clients :
        /\ clients[a].authed
        /\ clients[a].strike_count = 1
        /\ clients[a].last_message = MESSAGE_RATE
        /\ \A t \in ChatInstants : t <= MESSAGE_RATE
        /\ \E b \in DOMAIN clients : b # a /\ clients[b].authed

\* C16: the channel is a queue (a step leaves it alone, puts one event at its
\* end or takes the one at its front, which is the one the Coordinator
\* handles), and the Coordinator handles the ClientConnected of a connection
\* before any other event of it, a NewMessage of it only between its
\* ClientConnected and its ClientDisconnected, and its ClientDisconnected
\* after its Reader has left and with no event of it behind in the channel.
C16_PerConnectionOrder ==
    [][/\ \/ queue' = queue
          \/ queue # <<>> /\ queue' = Tail(queue)
          \/ Len(queue') = Len(queue) + 1 /\ SubSeq(queue', 1, Len(queue)) = queue
       /\ CoordStep =>
             LET e == Head(queue)
             IN  /\ e.type = "ClientConnected" => seen[e.conn] = "none"
                 /\ e.type = "NewMessage" =>
                       seen[e.conn] = "live" /\ e.addr = connAddr[e.conn]
                 /\ e.type = "ClientDisconnected" =>
                       /\ seen[e.conn] = "live"
                       /\ rpc[e.conn] = "done"
                       /\ \A i \in 1..Len(queue') : queue'[i].conn # e.conn]_vars

\* the Coordinator has handled the ClientDisconnected of a connection that
\* sent two lines or more
C16_Witness ==
    \E c \in ConnIds : seen[c] = "gone" /\ reads[c] >= 2

\* C17 as stated: when getrandom failed no connection is accepted, no event
\* reaches the Coordinator and the session table stays empty.
C17_NoServiceWithoutToken ==
    ~getrandom_ok =>
        /\ nextConn = 1
        /\ \A c \in ConnIds : seen[c] = "none"
        /\ clients = EmptyMap

\* C18 as stated: the step that handles a violation (a message that comes
\* too early or is not valid UTF-8) of a session one strike short of
\* STRIKE_LIMIT sets the ban record of its host to the reading of the step and
\* leaves the session table without the session's address.
C18_BanStepRemovesSession ==
    [][(/\ MessageStep
        /\ ~AcceptedStep
        /\ clients[Head(queue).addr].strike_count = STRIKE_LIMIT - 1) =>
          /\ Ip(Head(queue).addr) \in DOMAIN banned_mfs'
          /\ banned_mfs'[Ip(Head(queue).addr)] = now'
          /\ Head(queue).addr \notin DOMAIN clients']_vars

\* the unauthenticated author of the handled message sent valid text that,
\* trimmed, is the token
TokenStep ==
    /\ MessageStep
    /\ ~clients[Head(queue).addr].authed
    /\ FromUtf8Ok(Head(queue).bytes)
    /\ Trim(Head(queue).bytes) = token

\* the step leaves the author in the table, authenticated, and writes the
\* welcome to its socket and nothing else
Welcomed ==
    /\ Head(queue).addr \in DOMAIN clients'
    /\ clients'[Head(queue).addr].authed
    /\ clients'[Head(queue).addr].conn = clients[Head(queue).addr].conn
    /\ writes' = {Write(clients[Head(queue).addr].conn, "welcome", Head(queue).addr, <<>>, 0)}

\* no step clears the flag of a session that stays in the table
FlagKept ==
    \A a \in DOMAIN clients \cap DOMAIN clients' :
        (clients'[a].conn = clients[a].conn /\ clients[a].authed) => clients'[a].authed

\* C19 as stated: every valid text of an unauthenticated session that, trimmed,
\* is the token authenticates the session, which stays in the table and alone
\* is written the welcome; and the flag of a session in the table is never
\* cleared.
C19_TokenAlwaysAuthenticates ==
    [][(TokenStep => Welcomed) /\ FlagKept]_vars

\* C19: valid text of an unauthenticated session that, trimmed, is the token
\* and that passes the rate check authenticates the session, which stays in
\* the table and alone is written the welcome; handled at a reading less than
\* MESSAGE_RATE after last_message it leaves the session unauthenticated with
\* one strike more; and the flag of a session in the table is never cleared.
C19_OnTimeTokenAuthenticates ==
    [][/\ (TokenStep /\ now' - clients[Head(queue).addr].last_message >= MESSAGE_RATE)
             => Welcomed
       /\ (TokenStep /\ now' - clients[Head(queue).addr].last_message < MESSAGE_RATE)
             => /\ Head(queue).addr \in DOMAIN clients'
                /\ ~clients'[Head(queue).addr].authed
                /\ clients'[Head(queue).addr].strike_count =
                       clients[Head(queue).addr].strike_count + 1
       /\ FlagKept]_vars

\* a session is authenticated and holds a strike: it was charged after its
\* token was accepted, and the session is authenticated still
C19_Witness ==
    \E a \in DOMAIN clients :
        /\ clients[a].authed
        /\ clients[a].strike_count >= 1

\* C20 as stated, for the accumulation buffer: after any pass of a Reader's
\* loop its buffer holds no delimiter (every delimiter received has been
\* emitted with its frame), and a Reader that has left has no byte of a
\* complete frame behind.
C20_BufferHoldsNoDelimiter ==
    \A c \in ConnIds : \A i \in 1..Len(rbuf[c]) : rbuf[c][i] # NL

\* the Coordinator handles a ClientDisconnected
DisconnectedStep ==
    CoordStep /\ Head(queue).type = "ClientDisconnected"

\* C21: handling a ClientDisconnected leaves the session table without the
\* event's address (as it was, when the address had no entry), every other
\* entry and the ban table as they were, writes to no socket and shuts none.
C21_DisconnectedFrame ==
    [][DisconnectedStep =>
          /\ DOMAIN clients' = DOMAIN clients \ {Head(queue).addr}
          /\ \A b \in DOMAIN clients' : clients'[b] = clients[b]
          /\ banned_mfs' = banned_mfs
          /\ writes' = {}
          /\ shut' = shut
          /\ ~panicked']_vars

\* the last event handled wrote nothing; the ClientDisconnected of a
\* connection that was rejected for its token, and so had no session left,
\* and the ClientDisconnected of a connection that kept its session until
\* then have both been handled, and a third session is in the table
C21_Witness ==
    /\ writes = {}
    /\ clients # EmptyMap
    /\ \E c, d \in ConnIds :
          /\ seen[c] = "gone" /\ shut[c]
          /\ seen[d] = "gone" /\ ~shut[d]

\* C22 as stated, for the query of a peer that has gone away: handling the
\* ClientConnected of a connection that is no longer open does not end the
\* Coordinator and leaves the entry of every other session as it was.
C22_GonePeerSurvived ==
    [][(/\ CoordStep
        /\ Head(queue).type = "ClientConnected"
        /\ sock[Head(queue).conn] # "open") =>
          /\ ~panicked'
          /\ \A b \in DOMAIN clients :
                b # connAddr[Head(queue).conn] =>
                    b \in DOMAIN clients' /\ clients'[b] = clients[b]]_vars

\* C23 as stated, for the end of a Reader: a Reader whose socket was shut
\* down by the Coordinator or closed by the peer leaves its loop by putting
\* its ClientDisconnected on the channel, the event whose handling removes
\* the address from the session table.
C23_ReaderLeavesWithDisconnected ==
    [][\A c \in ConnIds :
          (/\ rpc[c] = "read"
           /\ rpc'[c] = "done"
           /\ shut[c] \/ sock'[c] \in {"fin", "rst"}) =>
              /\ Len(queue') = Len(queue) + 1
              /\ queue'[Len(queue')] = ClientDisconnected(c, connAddr[c])]_vars

\* C24 as stated: a message of a session that holds STRIKE_LIMIT strikes or
\* more and whose socket the Coordinator has shut down (it was sent the ban
\* notice) is relayed to nobody, does not reset the session's strike count
\* and leaves the ban table as it was.
C24_NoEffectAfterBan ==
    [][(/\ MessageStep
        /\ clients[Head(queue).addr].strike_count >= STRIKE_LIMIT
        /\ shut[clients[Head(queue).addr].conn]) =>
          /\ \A w \in writes' : w.kind # "broadcast"
          /\ Head(queue).addr \in DOMAIN clients' =>
                clients'[Head(queue).addr].strike_count >=
                    clients[Head(queue).addr].strike_count
          /\ banned_mfs' = banned_mfs]_vars

\* C25 as stated: handling the ClientDisconnected of one connection leaves
\* in the table the session that a later connection from the same address
\* was given.
C25_DisconnectedSparesLaterSession ==
    [][(/\ DisconnectedStep
        /\ Head(queue).addr \in DOMAIN clients
        /\ clients[Head(queue).addr].conn # Head(queue).conn) =>
          /\ Head(queue).addr \in DOMAIN clients'
          /\ clients'[Head(queue).addr] = clients[Head(queue).addr]]_vars

\* C26: under a clock that never goes back, a message of a session that is
\* not authenticated passes the rate check; valid text is then compared with
\* the token, so the session is authenticated or removed and no strike is
\* charged, and the session's strike count grows, by one, only for a message
\* that is not valid UTF-8.
C26_UnauthedNoRateStrike ==
    [][(MessageStep /\ ~clients[Head(queue).addr].authed) =>
          LET a == Head(queue).addr
          IN  /\ now' - clients[a].last_message >= MESSAGE_RATE
              /\ IF FromUtf8Ok(Head(queue).bytes)
                 THEN \/ a \notin DOMAIN clients'
                      \/ clients'[a].authed /\ clients'[a].strike_count = 0
                 ELSE /\ a \in DOMAIN clients'
                      /\ clients'[a] =
                            [clients[a] EXCEPT !.strike_count = clients[a].strike_count + 1]]_vars

\* a session that is not authenticated holds two strikes, charged for two
\* undecodable lines, and the clock reads what it read at its admission
C26_Witness ==
    \E a \in DOMAIN clients :
        /\ ~clients[a].authed
        /\ clients[a].strike_count = 2
        /\ now = clients[a].last_message + 2 * MESSAGE_RATE

TypeOK ==
    /\ now \in Instants \cup ExpiryInstants \cup AuthInstants \cup MonoInstants
    /\ \A a \in DOMAIN clients : clients[a].strike_count \in 0..MaxStrikes
    /\ DOMAIN clients \subseteq Addrs
    /\ DOMAIN banned_mfs \subseteq IPs
    /\ Len(queue) <= MaxQueue

====
